---- MODULE Spec2Model ----
(***************************************************************************)
(* A model of the RustOS VGA text driver (src/vga_buffer.rs) and of the    *)
(* kernel entry point and panic handler that use it (src/main.rs).         *)
(*                                                                         *)
(* The VGA memory is the variable chars, a BUFFER_HEIGHT x BUFFER_WIDTH    *)
(* grid of ScreenChar records indexed from 0 as in the source.  The        *)
(* fields of the static WRITER are column_position and color_code, and     *)
(* locked is the flag of the spin::Mutex around it.  The methods of        *)
(* Writer are operators on a record w that carries these fields; the       *)
(* actions apply them and store the result.                                *)
(***************************************************************************)
EXTENDS Integers, Sequences, FiniteSets, TLC

VARIABLES
    chars,            \* the VGA text buffer at 0xb8000 (Buffer.chars)
    column_position,  \* Writer.column_position
    color_code,       \* Writer.color_code
    locked,           \* whether the Mutex of WRITER is held
    pc,               \* control location of the running context
    i,                \* counter of the `for _ in 0..n` loop at pc
    info,             \* the PanicInfo handed to the panic handler
    call,             \* history: the last operation and its arguments
    nl_calls,         \* history: new_line calls made by the last operation
    nl_post,          \* history: Writer state right after the last new_line
    placed,           \* history: the cells stored to by the last operation
    colors,           \* history: the colours of the last set_color call
    ops,              \* history: number of calls made so far
    lock_count,       \* history: number of times the Mutex was acquired
    at_fault          \* history: Writer state and surface when the fault came

vars == <<chars, column_position, color_code, locked, pc, i, info,
          call, nl_calls, nl_post, placed, colors, ops, lock_count, at_fault>>

(***************************************************************************)
(* Constants of the source.                                                *)
(***************************************************************************)
BUFFER_HEIGHT == 25
BUFFER_WIDTH == 80

Black == 0
Red == 4
LightGray == 7
Yellow == 14
White == 15

LF == 10
PrintableLo == 32
PrintableHi == 126
Placeholder == 254
Space == 32
ByteMod == 256

Rows == 0 .. (BUFFER_HEIGHT - 1)
Cols == 0 .. (BUFFER_WIDTH - 1)

ScreenChar(ascii_character, cc) ==
    [ascii_character |-> ascii_character, color_code |-> cc]

(***************************************************************************)
(* Bitwise or of two naturals, and the u8 left shift by four.              *)
(***************************************************************************)
RECURSIVE BitOr(_, _)
BitOr(a, b) ==
    IF a = 0 THEN b
    ELSE IF b = 0 THEN a
    ELSE (IF (a % 2 = 1) \/ (b % 2 = 1) THEN 1 ELSE 0)
         + 2 * BitOr(a \div 2, b \div 2)

Shl4(x) == (x * 16) % ByteMod

ColorCode_new_swapped(foreground, background) ==
    BitOr(Shl4(foreground), background)

\* ColorCode::new and ColorCode::from_colors
ColorCode_new(foreground, background) ==
    BitOr(Shl4(background), foreground)

(***************************************************************************)
(* Writer.  w is a record with the fields column_position, color_code and  *)
(* chars, and the history fields nl_calls, nl_post and placed.             *)
(***************************************************************************)
Writer_new(surface) ==
    [column_position |-> 0,
     color_code |-> ColorCode_new(Yellow, Black),
     chars |-> surface,
     nl_calls |-> 0,
     nl_post |-> [column_position |-> 0, chars |-> <<>>],
     placed |-> <<>>]

set_color_repaint(w, foreground, background) ==
    [w EXCEPT !.color_code = ColorCode_new(foreground, background),
              !.chars = [r \in Rows |-> [c \in Cols |->
                  ScreenChar(w.chars[r][c].ascii_character,
                             ColorCode_new(foreground, background))]]]

set_color(w, foreground, background) ==
    [w EXCEPT !.color_code = ColorCode_new(foreground, background)]

\* the row blanked in black on black whatever the active attribute is
clear_row_black(w, row) ==
    LET blank == ScreenChar(Space, ColorCode_new(Black, Black))
    IN  [w EXCEPT !.chars[row] = [col \in Cols |-> blank]]

clear_row(w, row) ==
    LET blank == ScreenChar(Space, w.color_code)
    IN  [w EXCEPT !.chars[row] = [col \in Cols |-> blank]]

\* the rows copied from the last one down to the first
RECURSIVE ShiftRows_reversed(_, _)
ShiftRows_reversed(buf, row) ==
    IF row >= BUFFER_HEIGHT THEN buf
    ELSE LET rest == ShiftRows_reversed(buf, row + 1)
         IN  [rest EXCEPT ![row - 1] = [col \in Cols |-> rest[row][col]]]

\* the loop `for row in 1..BUFFER_HEIGHT`, from iteration row on: each cell
\* of row is read and written to row - 1, rows taken in increasing order
RECURSIVE ShiftRows(_, _)
ShiftRows(buf, row) ==
    IF row >= BUFFER_HEIGHT THEN buf
    ELSE ShiftRows([buf EXCEPT ![row - 1] = [col \in Cols |-> buf[row][col]]],
                   row + 1)

new_line_no_clear(w) ==
    LET shifted == [w EXCEPT !.chars = ShiftRows(w.chars, 1)]
        done == [shifted EXCEPT !.column_position = 0]
    IN  [done EXCEPT !.nl_calls = @ + 1,
                     !.nl_post = [column_position |-> done.column_position,
                                  chars |-> done.chars]]

new_line(w) ==
    LET shifted == [w EXCEPT !.chars = ShiftRows(w.chars, 1)]
        cleared == clear_row(shifted, BUFFER_HEIGHT - 1)
        done == [cleared EXCEPT !.column_position = 0]
    IN  [done EXCEPT !.nl_calls = @ + 1,
                     !.nl_post = [column_position |-> done.column_position,
                                  chars |-> done.chars]]

\* the second arm of the match in write_byte, after the bounds check
PutByte(w, byte) ==
    LET row == BUFFER_HEIGHT - 1
        col == w.column_position
    IN  [w EXCEPT !.chars[row][col] = ScreenChar(byte, w.color_code),
                  !.column_position = @ + 1,
                  !.placed = Append(@, [row |-> row, col |-> col,
                                        cell |-> ScreenChar(byte, w.color_code)])]

write_byte_no_wrap(w, byte) ==
    IF byte = LF THEN new_line(w)
    ELSE PutByte(IF w.column_position > BUFFER_WIDTH THEN new_line(w) ELSE w, byte)

write_byte_scroll_after(w, byte) ==
    IF byte = LF THEN new_line(w)
    ELSE IF w.column_position >= BUFFER_WIDTH
         THEN LET s == new_line(PutByte([w EXCEPT !.column_position = 0], byte))
              IN  [s EXCEPT !.column_position = 1]
         ELSE PutByte(w, byte)

\* write_byte replacing the bytes that write_string replaces
write_byte_sanitized(w, byte) ==
    IF byte = LF THEN new_line(w)
    ELSE PutByte(IF w.column_position >= BUFFER_WIDTH THEN new_line(w) ELSE w,
                 IF byte >= PrintableLo /\ byte <= PrintableHi THEN byte
                 ELSE Placeholder)

write_byte(w, byte) ==
    IF byte = LF THEN new_line(w)
    ELSE PutByte(IF w.column_position >= BUFFER_WIDTH THEN new_line(w) ELSE w, byte)

IsPrintable(byte) == byte >= PrintableLo /\ byte <= PrintableHi

\* the match in write_string and in panic_write_string
Sanitize(byte) == IF IsPrintable(byte) \/ byte = LF THEN byte ELSE Placeholder

\* the loop `for byte in s.bytes()` of write_string over the bytes
\* s[lo] .. s[hi], taken in order.  The range is halved, and the test of
\* w1 (a usize is never negative) has the first half evaluated before the
\* second is entered, so that a long string is evaluated without deep nesting
RECURSIVE WriteBytes(_, _, _, _)
WriteBytes(w, s, lo, hi) ==
    IF lo > hi THEN w
    ELSE IF lo = hi THEN write_byte(w, Sanitize(s[lo]))
    ELSE LET mid == (lo + hi) \div 2
             w1 == WriteBytes(w, s, lo, mid)
         IN  IF w1.column_position >= 0
             THEN WriteBytes(w1, s, mid + 1, hi)
             ELSE w1

RECURSIVE WriteBytesRaw(_, _, _, _)
WriteBytesRaw(w, s, lo, hi) ==
    IF lo > hi THEN w
    ELSE IF lo = hi THEN write_byte(w, s[lo])
    ELSE LET mid == (lo + hi) \div 2
             w1 == WriteBytesRaw(w, s, lo, mid)
         IN  IF w1.column_position >= 0
             THEN WriteBytesRaw(w1, s, mid + 1, hi)
             ELSE w1

write_string_raw(w, s) == WriteBytesRaw(w, s, 1, Len(s))

write_string(w, s) == WriteBytes(w, s, 1, Len(s))

(***************************************************************************)
(* panic_write_string.  It reads no field of WRITER: of w it uses chars    *)
(* alone (and the history field placed).  A cell is addressed by its flat  *)
(* offset from the start of the buffer.                                    *)
(***************************************************************************)
StoreAt(w, offset, cell) ==
    LET row == offset \div BUFFER_WIDTH
        col == offset % BUFFER_WIDTH
    IN  [w EXCEPT !.chars = IF row \in Rows THEN [@ EXCEPT ![row][col] = cell] ELSE @,
                  !.placed = Append(@, [row |-> row, col |-> col, cell |-> cell])]

\* the loop bound off by one: the store at column BUFFER_WIDTH is made
PanicWriteByte_past_end(st, byte, row, cc) ==
    IF st.stop THEN st
    ELSE IF st.current_col > BUFFER_WIDTH THEN [st EXCEPT !.stop = TRUE]
    ELSE LET char_byte == Sanitize(byte)
         IN  IF char_byte = LF THEN [st EXCEPT !.stop = TRUE]
             ELSE [st EXCEPT
                      !.w = StoreAt(@, row * BUFFER_WIDTH + st.current_col,
                                    ScreenChar(char_byte, cc)),
                      !.current_col = @ + 1]

\* one iteration of the loop `for byte in s.bytes()` of panic_write_string;
\* st.stop records that the loop was left by a break
PanicWriteByte(st, byte, row, cc) ==
    IF st.stop THEN st
    ELSE IF st.current_col >= BUFFER_WIDTH THEN [st EXCEPT !.stop = TRUE]
    ELSE LET char_byte == Sanitize(byte)
         IN  IF char_byte = LF THEN [st EXCEPT !.stop = TRUE]
             ELSE [st EXCEPT
                      !.w = StoreAt(@, row * BUFFER_WIDTH + st.current_col,
                                    ScreenChar(char_byte, cc)),
                      !.current_col = @ + 1]

\* the iterations for the bytes s[lo] .. s[hi], taken in order.  The range
\* is halved so that a long string is evaluated without deep nesting, and
\* the state passed on is bound by a quantifier so that it is evaluated
\* once where it is bound, not again at each use
RECURSIVE PanicWriteLoop(_, _, _, _, _, _)
PanicWriteLoop(st, s, lo, hi, row, cc) ==
    IF lo > hi THEN st
    ELSE IF lo = hi
    THEN CHOOSE st2 \in {PanicWriteByte(st1, s[lo], row, cc) : st1 \in {st}} : TRUE
    ELSE LET mid == (lo + hi) \div 2
         IN  CHOOSE st2 \in
                 {IF st1.stop THEN st1
                  ELSE PanicWriteLoop(st1, s, mid + 1, hi, row, cc) :
                      st1 \in {PanicWriteLoop(st, s, lo, mid, row, cc)}} : TRUE

\* the loop of panic_write_string, with current_col starting at col
PanicWriteFrom(w, s, row, col, cc) ==
    (CHOOSE st \in
         {PanicWriteLoop([w |-> w, current_col |-> col, stop |-> FALSE],
                         bytes, 1, Len(bytes), row, cc) : bytes \in {s}} : TRUE).w

panic_write_string_row_unchecked(w, s, row, col, cc) ==
    IF col >= BUFFER_WIDTH THEN w
    ELSE PanicWriteFrom(w, s, row, col, cc)

panic_write_string(w, s, row, col, cc) ==
    IF row >= BUFFER_HEIGHT \/ col >= BUFFER_WIDTH THEN w
    ELSE PanicWriteFrom(w, s, row, col, cc)

(***************************************************************************)
(* The state of WRITER and of the surface as a record, with the history    *)
(* of the operation about to run empty, and the step that stores the       *)
(* record an operation returns.                                            *)
(***************************************************************************)
NoSnapshot == [column_position |-> 0, chars |-> <<>>]

\* at_fault while no fault has come
NoFault == [column_position |-> 0, color_code |-> 0, chars |-> <<>>]

Self ==
    [column_position |-> column_position,
     color_code |-> color_code,
     chars |-> chars,
     nl_calls |-> 0,
     nl_post |-> NoSnapshot,
     placed |-> <<>>]

Commit(w, c) ==
    /\ chars' = w.chars
    /\ column_position' = w.column_position
    /\ color_code' = w.color_code
    /\ nl_calls' = w.nl_calls
    /\ nl_post' = w.nl_post
    /\ placed' = w.placed
    /\ call' = c
    /\ colors' = IF c.op = "set_color"
                 THEN <<c.foreground, c.background>>
                 ELSE colors

CallSetColor(fg, bg) == [op |-> "set_color", foreground |-> fg, background |-> bg]
CallWriteByte(b) == [op |-> "write_byte", byte |-> b]
CallWriteString(s) == [op |-> "write_string", s |-> s]
CallWriteAt(s, row, col, cc) ==
    [op |-> "write_at", s |-> s, row |-> row, col |-> col, color_code |-> cc]
CallNone(name) == [op |-> name]

(***************************************************************************)
(* The surface when the kernel gets control: whatever the firmware and     *)
(* the bootloader left in the text buffer.                                 *)
(***************************************************************************)
BootBlank == [r \in Rows |-> [c \in Cols |-> ScreenChar(Space, LightGray)]]

BootText ==
    [r \in Rows |-> [c \in Cols |->
        ScreenChar((r * 37 + c * 11) % ByteMod, (r * 16 + c) % ByteMod)]]

BootSurfaces == {BootBlank, BootText}

(***************************************************************************)
(* kernel_main, one step per call it makes.                                *)
(***************************************************************************)
VCenterLines == 10
HCenterSpaces == 35
Smiley == 1

StrNewline == <<LF>>
StrHello ==
    <<72, 101, 108, 108, 111, 32, 102, 114, 111, 109, 32,
      82, 117, 115, 116, 32, 79, 83, 33>>

KernelPcs ==
    {"lock", "clear_color", "clear_loop", "smiley_color", "vcenter_loop",
     "hcenter_smiley", "smiley", "smiley_newline", "hcenter_text", "hello",
     "drop", "idle"}

\* a step of straight-line code or of a loop body: the loop at `from` runs
\* n times (n = 1 for straight-line code) and then control is at `to`
Goto(from, n, to) ==
    /\ pc = from
    /\ i < n
    /\ IF i + 1 < n
       THEN pc' = from /\ i' = i + 1
       ELSE pc' = to /\ i' = 0
    /\ UNCHANGED <<info, ops, at_fault>>

K_lock ==
    /\ ~locked
    /\ Goto("lock", 1, "clear_color")
    /\ locked' = TRUE
    /\ lock_count' = lock_count + 1
    /\ Commit(Self, CallNone("lock"))

K_clear_color ==
    /\ Goto("clear_color", 1, "clear_loop")
    /\ Commit(set_color(Self, Black, Black), CallSetColor(Black, Black))
    /\ UNCHANGED <<locked, lock_count>>

K_clear_loop ==
    /\ Goto("clear_loop", BUFFER_HEIGHT, "smiley_color")
    /\ Commit(write_string(Self, StrNewline), CallWriteString(StrNewline))
    /\ UNCHANGED <<locked, lock_count>>

K_smiley_color ==
    /\ Goto("smiley_color", 1, "vcenter_loop")
    /\ Commit(set_color(Self, Yellow, Black), CallSetColor(Yellow, Black))
    /\ UNCHANGED <<locked, lock_count>>

K_vcenter_loop ==
    /\ Goto("vcenter_loop", VCenterLines, "hcenter_smiley")
    /\ Commit(write_string(Self, StrNewline), CallWriteString(StrNewline))
    /\ UNCHANGED <<locked, lock_count>>

K_hcenter_smiley ==
    /\ Goto("hcenter_smiley", HCenterSpaces, "smiley")
    /\ Commit(write_byte(Self, Space), CallWriteByte(Space))
    /\ UNCHANGED <<locked, lock_count>>

K_smiley ==
    /\ Goto("smiley", 1, "smiley_newline")
    /\ Commit(write_byte(Self, Smiley), CallWriteByte(Smiley))
    /\ UNCHANGED <<locked, lock_count>>

K_smiley_newline ==
    /\ Goto("smiley_newline", 1, "hcenter_text")
    /\ Commit(write_string(Self, StrNewline), CallWriteString(StrNewline))
    /\ UNCHANGED <<locked, lock_count>>

K_hcenter_text ==
    /\ Goto("hcenter_text", HCenterSpaces, "hello")
    /\ Commit(write_byte(Self, Space), CallWriteByte(Space))
    /\ UNCHANGED <<locked, lock_count>>

K_hello ==
    /\ Goto("hello", 1, "drop")
    /\ Commit(write_string(Self, StrHello), CallWriteString(StrHello))
    /\ UNCHANGED <<locked, lock_count>>

\* the guard kept alive into the idle loop: the lock is never released
K_drop_forgotten ==
    /\ Goto("drop", 1, "idle")
    /\ UNCHANGED <<locked, lock_count>>
    /\ Commit(Self, CallNone("drop"))

K_drop ==
    /\ Goto("drop", 1, "idle")
    /\ locked' = FALSE
    /\ UNCHANGED lock_count
    /\ Commit(Self, CallNone("drop"))

\* an idle loop that writes to the screen at each turn
K_idle_prints ==
    /\ pc = "idle"
    /\ Commit(write_byte(Self, Space), CallWriteByte(Space))
    /\ UNCHANGED <<locked, pc, i, info, ops, lock_count, at_fault>>

\* the `loop { spin_loop() }` that ends kernel_main
K_idle ==
    /\ pc = "idle"
    /\ UNCHANGED vars

kernel_main ==
    \/ K_lock
    \/ K_clear_color
    \/ K_clear_loop
    \/ K_smiley_color
    \/ K_vcenter_loop
    \/ K_hcenter_smiley
    \/ K_smiley
    \/ K_smiley_newline
    \/ K_hcenter_text
    \/ K_hello
    \/ K_drop
    \/ K_idle

(***************************************************************************)
(* PanicInfo.  A file name is a sequence of characters, each character the *)
(* sequence of the bytes of its UTF-8 encoding.                            *)
(***************************************************************************)
PanicInfoOf(has_location, file, line) ==
    [has_location |-> has_location, file |-> file, line |-> line]

NoInfo == PanicInfoOf(FALSE, <<>>, 0)

AsciiName(n) == [k \in 1 .. n |-> <<97 + (k % 26)>>]
\* every other character is U+00E9, two bytes in UTF-8
AccentName(n) == [k \in 1 .. n |-> IF k % 2 = 0 THEN <<195, 169>> ELSE <<97 + (k % 26)>>]
\* every character is U+1F980, four bytes in UTF-8
WideName(n) == [k \in 1 .. n |-> <<240, 159, 166, 128>>]

MaxNameLen == 42

PanicFiles ==
    {<<>>, AsciiName(11), AsciiName(MaxNameLen - 2), AsciiName(MaxNameLen),
     AccentName(MaxNameLen), WideName(MaxNameLen)}

PanicLines == {0, 7, 4321, 9999, 10000, 2147483647}

PanicInfos ==
    {NoInfo} \cup {PanicInfoOf(TRUE, f, l) : f \in PanicFiles, l \in PanicLines}

RECURSIVE Flatten(_)
Flatten(ss) == IF ss = <<>> THEN <<>> ELSE Head(ss) \o Flatten(Tail(ss))

\* str::bytes of a file name
StrBytes(file) == Flatten(file)

(***************************************************************************)
(* The panic handler.                                                      *)
(***************************************************************************)
max_chars == 40
LineLimit == 10000
LabelCol == 40
NumberCol == 46
Digit0 == 48

StrPanic == <<80, 65, 78, 73, 67, 33>>
StrLine == <<76, 105, 110, 101, 58, 32>>

PanicColor == ColorCode_new(Red, Black)

\* the test of the character count off by one: 41 characters are kept
RECURSIVE TruncLoop_off_by_one(_, _, _, _)
TruncLoop_off_by_one(chs, byte_pos, char_count, safe_byte_len) ==
    IF chs = <<>> THEN safe_byte_len
    ELSE IF char_count > max_chars THEN byte_pos
    ELSE TruncLoop_off_by_one(Tail(chs), byte_pos + Len(Head(chs)),
                              char_count + 1, byte_pos + Len(Head(chs)))

\* the loop over file.char_indices(): chs are the characters not yet
\* visited, the first of them at byte_pos
RECURSIVE TruncLoop(_, _, _, _)
TruncLoop(chs, byte_pos, char_count, safe_byte_len) ==
    IF chs = <<>> THEN safe_byte_len
    ELSE IF char_count >= max_chars THEN byte_pos
    ELSE TruncLoop(Tail(chs), byte_pos + Len(Head(chs)), char_count + 1,
                   byte_pos + Len(Head(chs)))

SafeByteLen(file) == TruncLoop(file, 0, 0, 0)

\* the `while num > 0 && idx > 0` loop; line_buf is indexed from 0
RECURSIVE DigitLoop(_, _, _)
DigitLoop(line_buf, num, idx) ==
    IF num > 0 /\ idx > 0
    THEN DigitLoop([line_buf EXCEPT ![idx] = (Digit0 + (num % 10)) % ByteMod],
                   num \div 10, idx - 1)
    ELSE [line_buf |-> line_buf, idx |-> idx]

\* line_str taken as the whole of line_buf, leading zeros included
LineStr_padded(line) ==
    LET line_buf == [k \in 0 .. 4 |-> Digit0]
        r == IF line = 0
             THEN [line_buf |-> [line_buf EXCEPT ![4] = Digit0], idx |-> 3]
             ELSE DigitLoop(line_buf, line, 4)
    IN  [k \in 1 .. 5 |-> r.line_buf[k - 1]]

\* line_str: the bytes of line_buf[idx + 1..]
LineStr(line) ==
    LET line_buf == [k \in 0 .. 4 |-> Digit0]
        r == IF line = 0
             THEN [line_buf |-> [line_buf EXCEPT ![4] = Digit0], idx |-> 3]
             ELSE DigitLoop(line_buf, line, 4)
    IN  [k \in 1 .. (4 - r.idx) |-> r.line_buf[r.idx + k]]

PanicPcs == {"panic_msg", "panic_file", "panic_label", "panic_number", "halt"}

\* a fault in kernel_main: the runtime calls the panic handler
Fault ==
    /\ pc \in KernelPcs \ {"idle"}
    /\ pc' = "panic_msg"
    /\ i' = 0
    /\ \E x \in PanicInfos : info' = x
    /\ at_fault' = [column_position |-> column_position,
                    color_code |-> color_code,
                    chars |-> chars]
    /\ Commit(Self, CallNone("fault"))
    /\ UNCHANGED <<locked, ops, lock_count>>

PanicGoto(from, to) ==
    /\ pc = from
    /\ pc' = to
    /\ UNCHANGED <<i, info, ops, at_fault>>

\* the handler taking the lock of WRITER before it writes
PanicWrite_locking(s, row, col) ==
    /\ ~locked
    /\ \E w \in {panic_write_string(Self, s, row, col, PanicColor)} :
           Commit(w, CallWriteAt(s, row, col, PanicColor))
    /\ locked' = TRUE
    /\ lock_count' = lock_count + 1

\* a call of panic_write_string by the handler
PanicWrite(s, row, col) ==
    /\ \E w \in {panic_write_string(Self, s, row, col, PanicColor)} :
           Commit(w, CallWriteAt(s, row, col, PanicColor))
    /\ UNCHANGED <<locked, lock_count>>

P_msg ==
    /\ PanicGoto("panic_msg", IF info.has_location THEN "panic_file" ELSE "halt")
    /\ PanicWrite(StrPanic, 0, 0)

P_file ==
    /\ PanicGoto("panic_file",
                 IF info.line < LineLimit THEN "panic_label" ELSE "halt")
    /\ \E file \in {StrBytes(info.file)} :
       \E safe_byte_len \in {SafeByteLen(info.file)} :
           IF safe_byte_len > 0 /\ safe_byte_len <= Len(file)
           THEN \E file_slice \in {SubSeq(file, 1, safe_byte_len)} :
                    PanicWrite(file_slice, 1, 0)
           ELSE Commit(Self, CallNone("skip_file")) /\ UNCHANGED <<locked, lock_count>>

P_label ==
    /\ PanicGoto("panic_label", "panic_number")
    /\ PanicWrite(StrLine, 1, LabelCol)

P_number ==
    /\ PanicGoto("panic_number", "halt")
    /\ \E line_str \in {LineStr(info.line)} : PanicWrite(line_str, 1, NumberCol)

\* the `loop { spin_loop() }` that ends the handler
P_halt ==
    /\ pc = "halt"
    /\ UNCHANGED vars

panic ==
    \/ P_msg
    \/ P_file
    \/ P_label
    \/ P_number
    \/ P_halt

PanicReport == P_msg \/ P_file \/ P_label \/ P_number

(***************************************************************************)
(* The program: the bootloader calls kernel_main once.                     *)
(***************************************************************************)
Init ==
    /\ \E surface \in BootSurfaces : chars = surface
    /\ column_position = Writer_new(chars).column_position
    /\ color_code = Writer_new(chars).color_code
    /\ locked = FALSE
    /\ lock_count = 0
    /\ at_fault = NoFault
    /\ pc = "lock"
    /\ i = 0
    /\ info = NoInfo
    /\ call = CallNone("boot")
    /\ nl_calls = 0
    /\ nl_post = NoSnapshot
    /\ placed = <<>>
    /\ colors = <<Yellow, Black>>
    /\ ops = 0

Next ==
    \/ kernel_main
    \/ Fault
    \/ panic

Spec == Init /\ [][Next]_vars

\* the processor keeps executing the handler it has entered
FairSpec == Spec /\ WF_vars(PanicReport)

(***************************************************************************)
(* The driver alone: a client that holds the lock of WRITER calls the      *)
(* public methods of Writer, and panic_write_string, in any order and      *)
(* with arguments of its choice.                                           *)
(***************************************************************************)
MaxOps == 3

FullLine(glyph) == [k \in 1 .. BUFFER_WIDTH |-> glyph]

ColorInputs == {<<Black, Black>>, <<LightGray, White>>}

ByteInputs == {LF, 65, Smiley}

StringInputs ==
    {<<LF>>, <<72, 105, LF>>, <<97, LF, 98>>, <<65, 9, 195>>,
     FullLine(120), FullLine(121) \o <<33>>}

StrHelloShort == <<72, 101, 108, 108, 111>>

WriteAtInputs ==
    {CallWriteAt(StrHelloShort, 1, 0, PanicColor),
     CallWriteAt(<<97, 98, LF, 99>>, 0, 0, 31),
     CallWriteAt(<<1, 200, 65>>, BUFFER_HEIGHT - 1, BUFFER_WIDTH - 2, PanicColor),
     CallWriteAt(FullLine(35), 1, 40, 31),
     CallWriteAt(StrHelloShort, BUFFER_HEIGHT, 0, PanicColor),
     CallWriteAt(StrHelloShort, 0, BUFFER_WIDTH + 5, 31)}

ApiCall ==
    /\ pc = "api"
    /\ ops < MaxOps
    /\ ops' = ops + 1
    /\ UNCHANGED <<locked, pc, i, info, lock_count, at_fault>>

W_set_color ==
    /\ ApiCall
    /\ \E p \in ColorInputs :
           Commit(set_color(Self, p[1], p[2]), CallSetColor(p[1], p[2]))

W_write_byte ==
    /\ ApiCall
    /\ \E b \in ByteInputs : Commit(write_byte(Self, b), CallWriteByte(b))

W_write_string ==
    /\ ApiCall
    /\ \E s \in StringInputs : Commit(write_string(Self, s), CallWriteString(s))

W_write_at ==
    /\ ApiCall
    /\ \E c \in WriteAtInputs :
           Commit(panic_write_string(Self, c.s, c.row, c.col, c.color_code), c)

InitWriter ==
    /\ \E surface \in BootSurfaces : chars = surface
    /\ column_position = Writer_new(chars).column_position
    /\ color_code = Writer_new(chars).color_code
    /\ locked = TRUE
    /\ lock_count = 1
    /\ at_fault = NoFault
    /\ pc = "api"
    /\ i = 0
    /\ info = NoInfo
    /\ call = CallNone("new")
    /\ nl_calls = 0
    /\ nl_post = NoSnapshot
    /\ placed = <<>>
    /\ colors = <<Yellow, Black>>
    /\ ops = 0

NextWriter ==
    \/ W_set_color
    \/ W_write_byte
    \/ W_write_string
    \/ W_write_at

SpecWriter == InitWriter /\ [][NextWriter]_vars

(***************************************************************************)
(* The string writer alone on a blank surface: set_color and write_string  *)
(* in any order.                                                           *)
(***************************************************************************)
InitStrings ==
    /\ InitWriter
    /\ chars = BootBlank

NextStrings ==
    \/ W_set_color
    \/ W_write_string

SpecStrings == InitStrings /\ [][NextStrings]_vars

(***************************************************************************)
(* Full lines written one after the other through write_string.  A line    *)
(* is BUFFER_WIDTH printable bytes; ops counts the lines written in a row  *)
(* that each made exactly one scroll, and i the lines written.  The three  *)
(* ways a full line comes with one scroll: its first byte wraps, a line    *)
(* feed ends it, or a line feed starts it.                                 *)
(***************************************************************************)
LineText(k) == [c \in 1 .. BUFFER_WIDTH |-> 33 + ((k * 7 + c) % 90)]

LineModes == {"lines_wrap", "lines_lf_after", "lines_lf_before"}

WriteLine(mode, s) ==
    /\ pc = mode
    /\ ops < BUFFER_HEIGHT
    /\ LET w == write_string(Self, s)
       IN  /\ Commit(w, CallWriteString(s))
           /\ ops' = IF w.nl_calls = 1 THEN ops + 1 ELSE 0
    /\ i' = i + 1
    /\ UNCHANGED <<locked, pc, info, lock_count, at_fault>>

L_wrap == WriteLine("lines_wrap", LineText(i + 1))

L_lf_after == WriteLine("lines_lf_after", LineText(i + 1) \o <<LF>>)

L_lf_before == WriteLine("lines_lf_before", <<LF>> \o LineText(i + 1))

InitLines ==
    /\ \E surface \in BootSurfaces : chars = surface
    /\ column_position = Writer_new(chars).column_position
    /\ color_code = Writer_new(chars).color_code
    /\ locked = TRUE
    /\ lock_count = 1
    /\ at_fault = NoFault
    /\ pc \in LineModes
    /\ i = 0
    /\ info = NoInfo
    /\ call = CallNone("new")
    /\ nl_calls = 0
    /\ nl_post = NoSnapshot
    /\ placed = <<>>
    /\ colors = <<Yellow, Black>>
    /\ ops = 0

NextLines ==
    \/ L_wrap
    \/ L_lf_after
    \/ L_lf_before

SpecLines == InitLines /\ [][NextLines]_vars

(***************************************************************************)
(* The panic handler alone, entered on a blank surface while the lock is   *)
(* held, for a fault at each line number up to MaxLine and at the largest  *)
(* line number TLC can hold.                                               *)
(***************************************************************************)
MaxLine == 10001

LineInfos ==
    {PanicInfoOf(TRUE, AsciiName(3), n) : n \in (0 .. MaxLine) \cup {2147483647}}

InitPanic ==
    /\ chars = BootBlank
    /\ column_position = Writer_new(chars).column_position
    /\ color_code = Writer_new(chars).color_code
    /\ locked = TRUE
    /\ lock_count = 1
    /\ at_fault = [column_position |-> column_position,
                   color_code |-> color_code,
                   chars |-> chars]
    /\ pc = "panic_msg"
    /\ i = 0
    /\ info \in LineInfos
    /\ call = CallNone("fault")
    /\ nl_calls = 0
    /\ nl_post = NoSnapshot
    /\ placed = <<>>
    /\ colors = <<Yellow, Black>>
    /\ ops = 0

SpecPanic == InitPanic /\ [][panic]_vars

(***************************************************************************)
(* Properties.                                                             *)
(***************************************************************************)
LastRow == BUFFER_HEIGHT - 1

\* the attribute byte background << 4 | foreground, as arithmetic on a u8
AttrOf(foreground, background) == ((background * 16) % 256) + foreground

\* the glyph shown for a byte that is not a line feed
GlyphOf(byte) == IF byte \in 32 .. 126 THEN byte ELSE 254

BlankRow(attr) == [c \in Cols |-> ScreenChar(32, attr)]

IsWriterCall(c) == c.op \in {"write_byte", "write_string"}

\* C1: a fault at any point of kernel_main, the lock held or not, does not
\* deadlock: from the entry of the panic handler on the lock is never
\* acquired (its flag never changes), every step of the handler before its
\* halt loop is a panic_write_string call (or the skipped file name), and
\* the handler eventually reaches its halt loop.
C1_FaultNeverDeadlocks ==
    /\ [][pc' \in PanicPcs => locked' = locked]_vars
    /\ [][(pc \in PanicPcs /\ pc # "halt") =>
             call'.op \in {"write_at", "skip_file"}]_vars
    /\ (pc \in PanicPcs) ~> (pc = "halt")

\* a fault while the lock was held has been reported and the handler halts
C1_Witness ==
    /\ pc = "halt"
    /\ locked
    /\ info.has_location
    /\ call.op = "write_at"

\* C2: in every reachable state the cursor is in 0 .. BUFFER_WIDTH.
C2_CursorInRange == column_position \in 0 .. BUFFER_WIDTH

\* a write has left the cursor at BUFFER_WIDTH
C2_Witness ==
    /\ IsWriterCall(call)
    /\ column_position = BUFFER_WIDTH

\* a full line written from cursor 0 fills the bottom row without a scroll
C3_FullLine ==
    (/\ column_position = 0
     /\ call'.op = "write_string"
     /\ Len(call'.s) = BUFFER_WIDTH
     /\ \A k \in 1 .. Len(call'.s) : call'.s[k] \in 32 .. 126)
    => /\ nl_calls' = 0
       /\ column_position' = BUFFER_WIDTH
       /\ \A c \in Cols :
              chars'[LastRow][c] = ScreenChar(call'.s[c + 1], color_code)
       /\ \A r \in Rows \ {LastRow} : chars'[r] = chars[r]

\* one more byte after a full line scrolls first and lands at column 0
C3_OneMore ==
    (/\ column_position = BUFFER_WIDTH
     /\ call'.op = "write_byte"
     /\ call'.byte # 10)
    => /\ nl_calls' = 1
       /\ column_position' = 1
       /\ chars'[LastRow - 1] = chars[LastRow]
       /\ chars'[LastRow][0] = ScreenChar(call'.byte, color_code)
       /\ \A c \in Cols \ {0} : chars'[LastRow][c] = ScreenChar(32, color_code)

\* C3: from cursor 0, write_string of exactly BUFFER_WIDTH printable bytes
\* makes no scroll, fills the bottom row with them and leaves the cursor at
\* BUFFER_WIDTH; with the cursor at BUFFER_WIDTH, write_byte of a byte that
\* is no line feed makes exactly one scroll, and makes it before the byte
\* is stored: the old bottom row is one row up, the byte is at column 0 of
\* a bottom row that is blank after it, and the cursor is 1.
C3_WrapAfterFullLine == [][C3_FullLine /\ C3_OneMore]_vars

\* a byte has been written with the cursor at BUFFER_WIDTH, under a full row
C3_Witness ==
    /\ call.op = "write_byte"
    /\ call.byte # 10
    /\ nl_calls = 1
    /\ column_position = 1
    /\ \A c \in Cols : chars[LastRow - 1][c].ascii_character = 120

\* the calls whose first effect, when they scroll, is the scroll
C4_ScrollFirst(c) ==
    \/ c.op = "write_byte"
    \/ c.op = "write_string" /\ Len(c.s) = 1

\* C4: the scroll made by a write_byte call (a line feed, or a byte written
\* with the cursor at BUFFER_WIDTH) or by write_string of a single byte:
\* right after it every row r - 1 holds the cells row r held before, the
\* last row is blank in the active attribute, and the cursor is 0.
C4_ScrollMovesRowsUp ==
    [][(C4_ScrollFirst(call') /\ nl_calls' = 1)
       => /\ \A r \in 1 .. LastRow : nl_post'.chars[r - 1] = chars[r]
          /\ nl_post'.chars[LastRow] = BlankRow(color_code)
          /\ DOMAIN nl_post'.chars = Rows
          /\ nl_post'.column_position = 0]_vars

\* a byte written with the cursor at BUFFER_WIDTH has scrolled a surface
\* whose rows differ, under an attribute that is not the default one
C4_Witness ==
    /\ call.op = "write_byte"
    /\ call.byte # 10
    /\ nl_calls = 1
    /\ color_code # AttrOf(14, 0)
    /\ \A r \in 1 .. LastRow : nl_post.chars[r - 1] # nl_post.chars[r]

\* the glyphs of row r of the surface
RowGlyphs(r) == [c \in 1 .. BUFFER_WIDTH |-> chars[r][c - 1].ascii_character]

RowIsBlank(r) == \A c \in Cols : chars[r][c].ascii_character = 32

\* BUFFER_HEIGHT full lines in a row have each made one scroll
C5_Scrolled == pc \in LineModes /\ ops = BUFFER_HEIGHT

\* C5 as claimed: after BUFFER_HEIGHT consecutive full lines, each written
\* with one scroll, the last row holds the last line and row 0 is blank.
C5_AsClaimed ==
    C5_Scrolled => (RowGlyphs(LastRow) = LineText(i) /\ RowIsBlank(0))

\* C5 as amended: after BUFFER_HEIGHT consecutive full lines, each written
\* with one scroll, the last row holds the last line when the scroll comes
\* before the text of the line (a wrap or a leading line feed), and is
\* blank over the last line in the row above it when a line feed ends each
\* line; row 0 is not blank: it holds the first of those lines, or the
\* second when a line feed ends each line.
C5_LastLinesOnSurface ==
    C5_Scrolled =>
        IF pc = "lines_lf_after"
        THEN /\ RowIsBlank(LastRow)
             /\ RowGlyphs(LastRow - 1) = LineText(i)
             /\ RowGlyphs(0) = LineText(i - BUFFER_HEIGHT + 2)
             /\ ~RowIsBlank(0)
        ELSE /\ RowGlyphs(LastRow) = LineText(i)
             /\ RowGlyphs(0) = LineText(i - BUFFER_HEIGHT + 1)
             /\ ~RowIsBlank(0)

\* BUFFER_HEIGHT full lines, each ended by a line feed, have been written
C5_Witness ==
    /\ C5_Scrolled
    /\ pc = "lines_lf_after"
    /\ i = BUFFER_HEIGHT

\* C6: every cell stored by write_byte or write_string carries the
\* attribute background << 4 | foreground of the last set_color call (of
\* yellow on black when there was none), and when the call ends with the
\* cursor past column 0 the last of them is on the surface, left of the
\* cursor on the bottom row.
C6_CellsCarryActiveAttribute ==
    [][IsWriterCall(call') =>
          /\ \A k \in 1 .. Len(placed') :
                 placed'[k].cell.color_code = AttrOf(colors[1], colors[2])
          /\ (Len(placed') > 0 /\ column_position' > 0) =>
                 chars'[LastRow][column_position' - 1]
                     = placed'[Len(placed')].cell]_vars

\* a string has been written after set_color(LightGray, White)
C6_Witness ==
    /\ call.op = "write_string"
    /\ Len(placed) > 1
    /\ colors = <<7, 15>>
    /\ chars[LastRow][column_position - 1].color_code = 247

\* C7: set_color changes the active attribute alone: the surface and the
\* cursor are as before the call.
C7_SetColorFrame ==
    [][call'.op = "set_color" =>
          /\ chars' = chars
          /\ column_position' = column_position
          /\ color_code' = AttrOf(call'.foreground, call'.background)]_vars

\* set_color has changed the attribute under which cells were written
C7_Witness ==
    /\ call.op = "set_color"
    /\ column_position > 0
    /\ chars[LastRow][0].color_code # color_code
    /\ chars[LastRow][0].color_code = AttrOf(14, 0)

\* C8: panic_write_string with row >= BUFFER_HEIGHT or col >= BUFFER_WIDTH
\* is a no-op: it stores to no cell, and the surface, the cursor and the
\* active attribute are as before the call.
C8_OutOfRangeIsNoOp ==
    [][(call'.op = "write_at"
        /\ (call'.row >= BUFFER_HEIGHT \/ call'.col >= BUFFER_WIDTH))
       => /\ placed' = <<>>
          /\ chars' = chars
          /\ column_position' = column_position
          /\ color_code' = color_code]_vars

\* panic_write_string has been called with row = BUFFER_HEIGHT
C8_Witness ==
    /\ call.op = "write_at"
    /\ call.row = BUFFER_HEIGHT
    /\ call.col = 0
    /\ Len(call.s) > 0

\* the number of bytes of s before its first line feed
BeforeLineFeed(s) ==
    IF \E k \in 1 .. Len(s) : s[k] = 10
    THEN (CHOOSE k \in 1 .. Len(s) : s[k] = 10 /\ \A j \in 1 .. (k - 1) : s[j] # 10) - 1
    ELSE Len(s)

Min(a, b) == IF a <= b THEN a ELSE b

\* C9: panic_write_string(s, row, col, attribute) with row < BUFFER_HEIGHT
\* and col < BUFFER_WIDTH stores exactly the cells (row, col + n) for
\* n < min(k, BUFFER_WIDTH - col), k the number of bytes of s before its
\* first line feed; cell n gets byte n when it is in 0x20..0x7e and 0xfe
\* otherwise, with the attribute given; every other cell, the cursor, the
\* active attribute and the lock are as before the call.
C9_WriteAtFrame ==
    [][(call'.op = "write_at"
        /\ call'.row < BUFFER_HEIGHT
        /\ call'.col < BUFFER_WIDTH)
       => LET c0 == call'.col
              n == Min(BeforeLineFeed(call'.s), BUFFER_WIDTH - c0)
          IN  /\ chars' =
                   [r \in Rows |-> [c \in Cols |->
                       IF r = call'.row /\ c >= c0 /\ c < c0 + n
                       THEN ScreenChar(GlyphOf(call'.s[c - c0 + 1]),
                                       call'.color_code)
                       ELSE chars[r][c]]]
              /\ Len(placed') = n
              /\ \A k \in 1 .. n :
                     placed'[k].row = call'.row /\ placed'[k].col = c0 + k - 1
              /\ column_position' = column_position
              /\ color_code' = color_code
              /\ locked' = locked]_vars

\* panic_write_string has stopped at the right edge of the surface, after
\* a byte that is not printable
C9_Witness ==
    /\ call.op = "write_at"
    /\ call.row = LastRow
    /\ call.col = BUFFER_WIDTH - 2
    /\ Len(call.s) = 3
    /\ Len(placed) = 2
    /\ chars[LastRow][BUFFER_WIDTH - 2].ascii_character = 254

\* C10: from a blank surface, after any set_color and write_string calls,
\* every glyph on the surface is in 0x20..0x7e or is 0xfe; a line feed is
\* never stored.
C10_OnlyPrintableGlyphs ==
    \A r \in Rows : \A c \in Cols :
        chars[r][c].ascii_character \in (32 .. 126) \cup {254}

\* a string with bytes that are not printable has been written
C10_Witness ==
    /\ call.op = "write_string"
    /\ \E k \in 1 .. Len(call.s) : call.s[k] \notin (32 .. 126) \cup {10}
    /\ \E c \in Cols : chars[LastRow][c].ascii_character = 254

\* the glyphs of the cells an operation stored, in the order of the stores
PlacedGlyphs(cells) == [k \in 1 .. Len(cells) |-> cells[k].cell.ascii_character]

\* C11: sanitization is idempotent: the glyphs a write_string call stored,
\* sanitized once more, are the same bytes, and write_string given those
\* glyphs in place of its argument stores the same sequence of glyphs.
C11_SanitizeIdempotent ==
    [][call'.op = "write_string" =>
          \E g \in {PlacedGlyphs(placed')} :
              /\ [k \in 1 .. Len(g) |-> GlyphOf(g[k])] = g
              /\ PlacedGlyphs(write_string(Self, g).placed) = g]_vars

\* a string with two bytes that are not printable has been rendered with
\* placeholders
C11_Witness ==
    /\ call.op = "write_string"
    /\ call.s = <<65, 9, 195>>
    /\ PlacedGlyphs(placed) = <<65, 254, 254>>

\* "Hello from Rust OS!"
HelloText ==
    <<72, 101, 108, 108, 111, 32, 102, 114, 111, 109, 32,
      82, 117, 115, 116, 32, 79, 83, 33>>

\* the cells of the smiley and of the text: the smiley at column 35 of the
\* row above the last, the text from column 35 of the last row
IsSmileyCell(r, c) == r = LastRow - 1 /\ c = 35

IsTextCell(r, c) == r = LastRow /\ c >= 35 /\ c < 35 + Len(HelloText)

\* the smiley and the text are on the surface, in yellow on black
C12_SmileyAndText ==
    /\ chars[LastRow - 1][35] = ScreenChar(1, AttrOf(14, 0))
    /\ \A k \in 1 .. Len(HelloText) :
           chars[LastRow][34 + k] = ScreenChar(HelloText[k], AttrOf(14, 0))

\* the rows the scrolls after set_color(Yellow, Black) made or filled: the
\* ten of the vertical centring and the one after the smiley
YellowRows == (BUFFER_HEIGHT - 11) .. LastRow

\* C12 as claimed: when kernel_main is in its idle loop the smiley and the
\* text are on the two bottom rows in yellow on black and every other cell
\* is a blank in black on black.
C12_AsClaimed ==
    pc = "idle" =>
        /\ C12_SmileyAndText
        /\ \A r \in Rows : \A c \in Cols :
               (~IsSmileyCell(r, c) /\ ~IsTextCell(r, c)) =>
                   chars[r][c] = ScreenChar(32, AttrOf(0, 0))

\* C12 as amended: when kernel_main is in its idle loop the smiley and the
\* text are on the two bottom rows in yellow on black and every other cell
\* is a blank, in black on black on rows 0 .. 13 and in yellow on black on
\* rows 14 .. 24.
C12_FinalSurface ==
    pc = "idle" =>
        /\ C12_SmileyAndText
        /\ \A r \in Rows : \A c \in Cols :
               (~IsSmileyCell(r, c) /\ ~IsTextCell(r, c)) =>
                   chars[r][c] =
                       ScreenChar(32, IF r \in YellowRows
                                      THEN AttrOf(14, 0) ELSE AttrOf(0, 0))

\* kernel_main has reached its idle loop from a blank surface
C12_Witness ==
    /\ pc = "idle"
    /\ ~locked
    /\ call.op = "drop"
    /\ chars[0][0] = ScreenChar(32, 0)
    /\ chars[LastRow][35].ascii_character = 72

\* the bytes of the first 40 characters of a file name, whole characters
RECURSIVE Concat(_)
Concat(ss) == IF Len(ss) = 0 THEN <<>> ELSE Concat(SubSeq(ss, 1, Len(ss) - 1)) \o ss[Len(ss)]

First40(file) == Concat(SubSeq(file, 1, Min(40, Len(file))))

\* "PANIC!" and "Line: "
PanicText == <<80, 65, 78, 73, 67, 33>>

LabelText == <<76, 105, 110, 101, 58, 32>>

\* the decimal digits of n, without leading zeros
RECURSIVE Decimal(_)
Decimal(n) == IF n < 10 THEN <<48 + n>> ELSE Decimal(n \div 10) \o <<48 + (n % 10)>>

\* the bytes of s are on row r from column c on, as glyphs in red on black,
\* as far as column last
ShownAt(s, r, c, last) ==
    \A k \in 1 .. Len(s) :
        (c + k - 1 <= last) =>
            chars[r][c + k - 1] = ScreenChar(GlyphOf(s[k]), AttrOf(4, 0))

\* the handler has halted after a fault with a source location
HaltedWithLocation == pc = "halt" /\ info.has_location

\* C13 as claimed: after a fault with a source location the file name, cut
\* to 40 characters, is on row 0, and "Line: " and the line number (when it
\* is below 10000) are on row 1 from columns 40 and 46.
C13_AsClaimed ==
    HaltedWithLocation =>
        /\ ShownAt(First40(info.file), 0, 0, 39)
        /\ info.line < 10000 =>
               /\ ShownAt(LabelText, 1, 40, 45)
               /\ ShownAt(Decimal(info.line), 1, 46, 79)

\* C13 as amended: the handler passes the bytes of the first 40 characters
\* of the file name, whole characters only, to panic_write_string for
\* row 1, column 0; after a fault with a source location row 0 shows
\* "PANIC!", row 1 shows the file name from column 0 up to column 39 and,
\* when the line number is below 10000, "Line: " from column 40 and the
\* line number from column 46.
C13_LocationOnRowOne ==
    /\ [](HaltedWithLocation =>
            /\ ShownAt(PanicText, 0, 0, 79)
            /\ ShownAt(First40(info.file), 1, 0, 39)
            /\ info.line < 10000 =>
                   /\ ShownAt(LabelText, 1, 40, 45)
                   /\ ShownAt(Decimal(info.line), 1, 46, 79))
    /\ [][pc = "panic_file" =>
             IF Len(info.file) = 0
             THEN call'.op = "skip_file"
             ELSE /\ call'.op = "write_at"
                  /\ call'.s = First40(info.file)
                  /\ call'.row = 1
                  /\ call'.col = 0]_vars

\* the handler has halted after a fault in a file whose name has more than
\* 40 characters, some of two bytes, at a line below 10000
C13_Witness ==
    /\ HaltedWithLocation
    /\ Len(info.file) > 40
    /\ \E k \in 1 .. 40 : Len(info.file[k]) = 2
    /\ info.line = 4321
    /\ chars[1][1].ascii_character = 254
    /\ chars[1][46].ascii_character = 52

\* C14: for a line number n below 10000 the handler writes "Line: " at
\* column 40 of row 1 and then, at column 46, exactly the decimal digits of
\* n without leading zeros (one 0 for n = 0), and the cell after the last
\* digit is left as it was; for n >= 10000 it writes neither the label nor
\* a digit: it makes neither call and columns 40 .. 79 of row 1 are left as
\* they were.
C14_LineNumberDigits ==
    /\ [][pc = "panic_label" =>
             /\ info.line < 10000
             /\ call' = [op |-> "write_at", s |-> LabelText, row |-> 1,
                         col |-> 40, color_code |-> AttrOf(4, 0)]]_vars
    /\ [][pc = "panic_number" =>
             /\ info.line < 10000
             /\ call' = [op |-> "write_at", s |-> Decimal(info.line), row |-> 1,
                         col |-> 46, color_code |-> AttrOf(4, 0)]
             /\ PlacedGlyphs(placed') = Decimal(info.line)]_vars
    /\ [][(pc \in PanicPcs /\ info.line >= 10000) =>
             pc' \notin {"panic_label", "panic_number"}]_vars
    /\ [](HaltedWithLocation =>
            IF info.line < 10000
            THEN /\ ShownAt(LabelText, 1, 40, 45)
                 /\ ShownAt(Decimal(info.line), 1, 46, 79)
                 /\ \A c \in (46 + Len(Decimal(info.line))) .. 79 :
                        chars[1][c] = at_fault.chars[1][c]
            ELSE \A c \in 40 .. 79 : chars[1][c] = at_fault.chars[1][c])

\* the handler has written the line number 1000, which ends in zeros
C14_Witness ==
    /\ pc = "halt"
    /\ info.line = 1000
    /\ call.op = "write_at"
    /\ call.s = <<49, 48, 48, 48>>
    /\ chars[1][49].ascii_character = 48

\* the fields of WRITER and the surface
WriterState == <<chars, column_position, color_code>>

\* C15: in a run without a fault kernel_main acquires the lock of WRITER
\* exactly once (before its first call, never again), every change of the
\* surface, the cursor or the active attribute is made with the lock held,
\* the lock is released by the step that enters the idle loop, and it is
\* free in every idle state.
C15_LockDiscipline ==
    /\ [](pc \in KernelPcs => lock_count = IF pc = "lock" THEN 0 ELSE 1)
    /\ [](pc \in KernelPcs \ {"lock", "idle"} => locked)
    /\ [][(pc \in KernelPcs /\ pc' \in KernelPcs /\ WriterState' # WriterState)
            => (locked /\ locked')]_vars
    /\ [][(pc # "idle" /\ pc' = "idle") => (locked /\ ~locked')]_vars
    /\ [](pc = "idle" => ~locked)

\* kernel_main is in its idle loop, having taken the lock once and written
C15_Witness ==
    /\ pc = "idle"
    /\ lock_count = 1
    /\ ~locked
    /\ at_fault = NoFault
    /\ column_position = 35 + Len(HelloText)

\* C16: the idle loop of kernel_main and the halt loop of the handler are
\* never left, and in them the surface, the cursor and the active attribute
\* never change.
C16_TerminalAbsorbing ==
    [][(pc \in {"idle", "halt"}) =>
          /\ pc' = pc
          /\ WriterState' = WriterState
          /\ locked' = locked]_vars

\* the handler is in its halt loop after a fault that came before the lock
\* was taken and had no source location
C16_Witness ==
    /\ pc = "halt"
    /\ ~info.has_location
    /\ ~locked
    /\ call.op = "write_at"
    /\ chars[0][0].ascii_character = 80

\* C17: the cells the handler stores for the file name (its call for
\* row 1, column 0) are all in columns 0 .. 39, left of the columns of
\* "Line: " (40 .. 45) and of the line number (46 and up).
C17_FileNameWithinColumns ==
    (pc \in PanicPcs /\ call.op = "write_at" /\ call.row = 1 /\ call.col = 0) =>
        \A k \in 1 .. Len(placed) : placed[k].col \in 0 .. 39

\* C18: write_byte of a byte that is no line feed, with the cursor left of
\* BUFFER_WIDTH, stores the byte as it is (printable or not) with the
\* active attribute at the cursor on the last row, moves the cursor one
\* column right, makes no scroll and changes no other cell nor the active
\* attribute.
C18_WriteByteInPlace ==
    [][(call'.op = "write_byte" /\ call'.byte # 10
        /\ column_position < BUFFER_WIDTH)
       => /\ nl_calls' = 0
          /\ chars' = [chars EXCEPT ![LastRow][column_position] =
                           ScreenChar(call'.byte, color_code)]
          /\ chars'[LastRow][column_position].ascii_character = call'.byte
          /\ column_position' = column_position + 1
          /\ color_code' = color_code]_vars

\* the byte 0x01 has been written as it is, right of a cell written before
\* and under an attribute set by set_color
C18_Witness ==
    /\ call.op = "write_byte"
    /\ call.byte = 1
    /\ nl_calls = 0
    /\ column_position > 1
    /\ colors # <<14, 0>>
    /\ chars[LastRow][column_position - 1] = ScreenChar(1, color_code)

\* C19: every cell an operation stores to is a cell of the surface: its row
\* is below BUFFER_HEIGHT, its column below BUFFER_WIDTH and its flat offset
\* below BUFFER_HEIGHT * BUFFER_WIDTH; the rows a scroll copies and clears
\* are the rows of the surface, and the surface keeps its shape.
C19_AccessesInRange ==
    /\ \A k \in 1 .. Len(placed) :
           /\ placed[k].row \in 0 .. (BUFFER_HEIGHT - 1)
           /\ placed[k].col \in 0 .. (BUFFER_WIDTH - 1)
           /\ placed[k].row * BUFFER_WIDTH + placed[k].col
                  < BUFFER_HEIGHT * BUFFER_WIDTH
    /\ nl_calls > 0 =>
           /\ DOMAIN nl_post.chars = 0 .. (BUFFER_HEIGHT - 1)
           /\ \A r \in DOMAIN nl_post.chars :
                  DOMAIN nl_post.chars[r] = 0 .. (BUFFER_WIDTH - 1)
    /\ DOMAIN chars = 0 .. (BUFFER_HEIGHT - 1)
    /\ \A r \in DOMAIN chars : DOMAIN chars[r] = 0 .. (BUFFER_WIDTH - 1)

\* panic_write_string, given three bytes for the last two cells of the
\* surface, has stored to the last cell and stopped
C19_Witness ==
    /\ call.op = "write_at"
    /\ Len(call.s) = 3
    /\ Len(placed) = 2
    /\ placed[2].row = BUFFER_HEIGHT - 1
    /\ placed[2].col = BUFFER_WIDTH - 1

\* C20: from the fault on, in every state of the handler up to and in its
\* halt loop, every cell of rows 2 .. BUFFER_HEIGHT - 1, the cursor and the
\* active attribute are as they were when the fault came.
C20_FaultReportFrame ==
    pc \in PanicPcs =>
        /\ \A r \in 2 .. (BUFFER_HEIGHT - 1) : chars[r] = at_fault.chars[r]
        /\ column_position = at_fault.column_position
        /\ color_code = at_fault.color_code

\* the handler has halted after a fault that came while kernel_main was
\* writing, in a file whose name fills row 1 to its last column
C20_Witness ==
    /\ pc = "halt"
    /\ locked
    /\ at_fault.column_position > 0
    /\ Len(info.file) > 0
    /\ Len(info.file[1]) = 4
    /\ chars[1][BUFFER_WIDTH - 1] = ScreenChar(254, AttrOf(4, 0))
    /\ chars[0] # at_fault.chars[0]

====
